---- MODULE Spec2Model ----
(***************************************************************************)
(* Model of the HS-code classification service                             *)
(* (src/services/geminiService.ts): the response repair parser             *)
(* cleanAndParseJSON, the timed fetch fetchWithTimeout, the three regional *)
(* connectors and the pipeline identifyHSCode.                             *)
(*                                                                         *)
(* Texts are sequences of lexical tokens.  A token stands for a run of     *)
(* characters of the source text: a brace, a newline, a run of three       *)
(* backticks, the word json, another word, a JSON scalar, or one           *)
(* "key":value member of a JSON object.                                    *)
(***************************************************************************)
EXTENDS Integers, Sequences, FiniteSets, TLC

VARIABLES
  \* cleanAndParseJSON called on its own (ParseSpec)
  input,          \* the argument
  parseOut,       \* what the call returned or threw
  ppc,            \* "start" before the call, "done" after it
  \* one call of identifyHSCode: its arguments and environment
  region,         \* TargetRegion
  imageBase64,    \* the image string, <<>> when absent
  hasCallback,    \* whether onStatusUpdate was passed
  env,            \* process.env: whether process exists, which tokens are set
  \* identifyHSCode's locals and position
  pc,
  statusLog,      \* the labels onStatusUpdate received, in order
  liveDataContext,
  regionSpecificInstructions,
  tools,
  gatherCaught,   \* the exception the catch of lines 265-268 swallowed
  parts,
  modelCalls,     \* calls of ai.models.generateContent
  modelRequest,   \* what the model was called with
  textResponse,
  parserCalls,    \* calls of cleanAndParseJSON
  parsed,         \* what cleanAndParseJSON returned
  result,         \* what identifyHSCode returned
  error,          \* what identifyHSCode threw
  failedAt,       \* the position it threw from
  \* the connector call in flight
  conn,           \* which connector, its position, its outcome
  fetchCalls,     \* calls of fetch
  timer,          \* the setTimeout of fetchWithTimeout
  aborted,        \* controller.signal.aborted
  fetchState,     \* the promise fetch returned
  response,       \* the Response it resolved to
  bodyState,      \* the promise response.json() returned
  \* a second call of identifyHSCode in flight at the same time
  parked,         \* its arguments, locals and position while the other runs
  \* the App component (AppSpec)
  app,            \* its useState cells
  searches,       \* the calls of handleSearch waiting at their await
  submitted       \* how many calls of identifyHSCode App has made

(* ---------------------------------------------------------------- bounds *)

\* Longest text (in tokens) handed to cleanAndParseJSON by ParseSpec.
MaxLen == 6

\* Most entries in an array a remote endpoint sends back.
MaxRecords == 4

\* Most searches the user of App submits in one run of AppSpec.
MaxSearches == 2

(* ------------------------------------------------------- JavaScript values *)

\* A scalar JavaScript value: undefined, null, a number, a string, or an
\* array kept opaque (named by s).
Undef == [k |-> "undef", n |-> 0, s |-> ""]
Null == [k |-> "null", n |-> 0, s |-> ""]
Num(n) == [k |-> "num", n |-> n, s |-> ""]
Str(s) == [k |-> "str", n |-> 0, s |-> s]
Lst(s) == [k |-> "list", n |-> 0, s |-> s]

\* The fields of HSCodeResult.
Keys ==
  {"hsCode", "productName", "description", "dutyRate", "taxRate",
   "restrictions", "reasoning", "confidenceScore", "requiredDocuments",
   "source", "sourceReference", "similarItems"}

NoFields == [key \in Keys |-> Undef]

\* What JSON.parse yields: an object (its fields; a missing field reads as
\* undefined) or a primitive.
JObj(fields) == [t |-> "obj", p |-> Undef, f |-> fields]
JPrim(v) == [t |-> "prim", p |-> v, f |-> NoFields]

(* ------------------------------------------------------------------ tokens *)

Tok(c) == [c |-> c, k |-> "", v |-> Undef]
LB == Tok("{")
RB == Tok("}")
COMMA == Tok(",")
NL == Tok("nl")
FENCE == Tok("fence")
JSONTAG == Tok("json")
WORD == Tok("word")
Scalar(v) == [c |-> "scalar", k |-> "", v |-> v]
Member(key, v) == [c |-> "member", k |-> key, v |-> v]

Min(S) == CHOOSE x \in S : \A y \in S : x <= y
Max(S) == CHOOSE x \in S : \A y \in S : x >= y

\* String.prototype.indexOf / lastIndexOf for a one-token needle, 0-based,
\* -1 when absent.
IndexOf(text, c) ==
  LET P == {i \in 1..Len(text) : text[i].c = c}
  IN IF P = {} THEN -1 ELSE Min(P) - 1

LastIndexOf(text, c) ==
  LET P == {i \in 1..Len(text) : text[i].c = c}
  IN IF P = {} THEN -1 ELSE Max(P) - 1

\* String.prototype.substring(start, end), 0-based, end exclusive: the
\* arguments are clamped to [0, length] and swapped when start > end.
Clamp(i, n) == IF i < 0 THEN 0 ELSE IF i > n THEN n ELSE i

Substring(text, start, end) ==
  LET a == Clamp(start, Len(text))
      b == Clamp(end, Len(text))
  IN IF a <= b THEN SubSeq(text, a + 1, b) ELSE SubSeq(text, b + 1, a)

(* --------------------------------------------------------------- JSON.parse *)

ParseFail == [ok |-> FALSE, v |-> JPrim(Undef)]
ParseOk(v) == [ok |-> TRUE, v |-> v]

IsWs(tok) == tok.c = "nl"
NotWs(tok) == tok.c # "nl"

\* The text without leading and trailing whitespace.
Trim(text) ==
  LET P == {i \in 1..Len(text) : ~IsWs(text[i])}
  IN IF P = {} THEN <<>> ELSE SubSeq(text, Min(P), Max(P))

\* The members between the braces of an object: member (, member)* or
\* nothing, with whitespace allowed around every token.  A repeated key
\* takes its last value.
ParseMembers(body) ==
  LET b == SelectSeq(body, NotWs)
      wellFormed ==
        \/ Len(b) = 0
        \/ /\ Len(b) % 2 = 1
           /\ \A i \in 1..Len(b) :
                IF i % 2 = 1 THEN b[i].c = "member" ELSE b[i].c = ","
      valueOf(key) ==
        LET P == {i \in 1..Len(b) : b[i].c = "member" /\ b[i].k = key}
        IN IF P = {} THEN Undef ELSE b[Max(P)].v
  IN IF wellFormed THEN ParseOk(JObj([key \in Keys |-> valueOf(key)]))
     ELSE ParseFail

\* JSON.parse(text): a JSON document is one value, a scalar or an object,
\* with whitespace allowed around it; anything else is a SyntaxError.
JSONparse(text) ==
  LET t == Trim(text)
  IN IF Len(t) = 1 /\ t[1].c = "scalar" THEN ParseOk(JPrim(t[1].v))
     ELSE IF Len(t) >= 2 /\ t[1].c = "{" /\ t[Len(t)].c = "}"
       THEN ParseMembers(SubSeq(t, 2, Len(t) - 1))
     ELSE ParseFail

(* ------------------------------------------------------- the two regexes *)

NoMatch == [found |-> FALSE, group |-> <<>>]

\* text.match(<fence>json<nl>(lazy any)<nl><fence>): leftmost start, then
\* the shortest capture.
MatchJsonFence(text) ==
  LET n == Len(text)
      closes(i) ==
        {j \in (i + 3)..(n - 1) : text[j].c = "nl" /\ text[j + 1].c = "fence"}
      starts ==
        {i \in 1..n :
           /\ i + 2 <= n
           /\ text[i].c = "fence"
           /\ text[i + 1].c = "json"
           /\ text[i + 2].c = "nl"
           /\ closes(i) # {}}
  IN IF starts = {} THEN NoMatch
     ELSE LET i == Min(starts)
              j == Min(closes(i))
          IN [found |-> TRUE, group |-> SubSeq(text, i + 3, j - 1)]

\* text.match(<fence>(lazy any)<fence>): leftmost start, then the shortest
\* capture.
MatchAnyFence(text) ==
  LET n == Len(text)
      closes(i) == {j \in (i + 1)..n : text[j].c = "fence"}
      starts == {i \in 1..n : text[i].c = "fence" /\ closes(i) # {}}
  IN IF starts = {} THEN NoMatch
     ELSE LET i == Min(starts)
              j == Min(closes(i))
          IN [found |-> TRUE, group |-> SubSeq(text, i + 1, j - 1)]

\* the json-tagged fence regex, or else (||) the bare fence regex
FenceMatch(text) ==
  IF MatchJsonFence(text).found THEN MatchJsonFence(text)
  ELSE MatchAnyFence(text)

(* --------------------------------------------------- cleanAndParseJSON *)

Returned(v) == [ok |-> TRUE, v |-> v, err |-> ""]
Thrown(e) == [ok |-> FALSE, v |-> JPrim(Undef), err |-> e]

\* Step 3 of cleanAndParseJSON: from the first opening brace to the last
\* closing brace.
BraceStep(text) ==
  LET firstOpen == IndexOf(text, "{")
      lastClose == LastIndexOf(text, "}")
  IN IF firstOpen # -1 /\ lastClose # -1
       THEN LET r == JSONparse(Substring(text, firstOpen, lastClose + 1))
            IN IF r.ok THEN Returned(r.v)
               ELSE Thrown("Failed to parse AI response as JSON")
       ELSE Thrown("SyntaxError")

\* Step 2 then step 3: the fenced block, when one is found with a non-empty
\* interior that parses.
FenceStep(text) ==
  LET jsonMatch == FenceMatch(text)
  IN IF jsonMatch.found /\ jsonMatch.group # <<>>
          /\ JSONparse(jsonMatch.group).ok
       THEN Returned(JSONparse(jsonMatch.group).v)
       ELSE BraceStep(text)

cleanAndParseJSON(text) ==
  IF JSONparse(text).ok THEN Returned(JSONparse(text).v)
  ELSE FenceStep(text)

(* ------------------------------------------------------------ the inputs *)

\* enum TargetRegion
TargetRegion ==
  {"Singapore", "Malaysia", "India", "UAE", "Saudi Arabia", "Qatar", "Oman",
   "Bahrain", "Kuwait", "Global (6-digit)"}

\* Strings are sequences of pieces; the empty string is <<>>.
EmptyString == <<>>
Truthy(str) == str # EmptyString

\* The image strings tried: none, a data URL, bare base64, a data URL with
\* nothing after the comma.
Images ==
  {EmptyString,
   <<"data:image/jpeg;base64", ",", "AAAA">>,
   <<"AAAA">>,
   <<"data:image/jpeg;base64", ",">>}

\* process.env as the connectors see it.  Without a process object (a
\* browser bundle) reading process.env throws a ReferenceError.  The
\* environments tried: no process object, no token set, both tokens set.
Envs ==
  {[process |-> FALSE, UAE_API_TOKEN |-> FALSE, SAUDI_API_TOKEN |-> FALSE],
   [process |-> TRUE, UAE_API_TOKEN |-> FALSE, SAUDI_API_TOKEN |-> FALSE],
   [process |-> TRUE, UAE_API_TOKEN |-> TRUE, SAUDI_API_TOKEN |-> TRUE]}

(* ------------------------------------------------- the status callback *)

\* if (onStatusUpdate) onStatusUpdate(label): the callback is the caller's
\* code; a call of it returns or throws.
CallbackOutcomes == IF hasCallback THEN {"returns", "throws"} ELSE {"absent"}

\* A log that records the newest label first.
EmitFirst(label) == IF hasCallback THEN <<label>> \o statusLog ELSE statusLog

Emit(label) == IF hasCallback THEN Append(statusLog, label) ELSE statusLog

(* --------------------------------------------------- the region policy *)

\* The branch of the if/else chain of lines 199-264 a region takes.
Branch(r) ==
  IF r \in {"Singapore", "Saudi Arabia", "UAE", "India", "Malaysia"} THEN r
  ELSE "else"

StatusLabel(r) ==
  CASE Branch(r) = "Singapore" -> "Searching Singapore TradeNet & AHTN..."
    [] Branch(r) = "Saudi Arabia" -> "Querying ZATCA Tariff Database..."
    [] Branch(r) = "UAE" -> "Checking Dubai Customs Records..."
    [] Branch(r) = "India" -> "Searching ITC-HS & DGFT Policies..."
    [] Branch(r) = "Malaysia" -> "Consulting Malaysian Customs (PDK)..."
    [] OTHER -> "Consulting Global WCO Standards..."

\* A policy that selects the search tool for India and Malaysia only.
BranchToolsNoSingapore(r) ==
  IF Branch(r) \in {"India", "Malaysia"} THEN <<"googleSearch">> ELSE <<>>

\* tools = [{ googleSearch: {} }] in the Singapore, India and Malaysia
\* branches; [] otherwise.
BranchTools(r) ==
  IF Branch(r) \in {"Singapore", "India", "Malaysia"} THEN <<"googleSearch">>
  ELSE <<>>

\* The connector a branch awaits, "none" when it awaits nothing.
BranchConnector(r) ==
  CASE Branch(r) = "Singapore" -> "fetchSingaporeData"
    [] Branch(r) = "Saudi Arabia" -> "fetchSaudiData"
    [] Branch(r) = "UAE" -> "fetchUAEData"
    [] Branch(r) = "else" -> "fetchUAEData"
    [] OTHER -> "none"

\* regionSpecificInstructions, named by its TARGET DATABASE line.
BranchInstructions(r) ==
  CASE Branch(r) = "Singapore" -> "Singapore TradeNet / AHTN 2022/2024."
    [] Branch(r) = "Saudi Arabia" -> "Saudi ZATCA Integrated Tariff."
    [] Branch(r) = "UAE" -> "GCC Unified Customs Tariff (Dubai Customs)."
    [] Branch(r) = "India" -> "ITC-HS 2022 (Indian Trade Clarification)."
    [] Branch(r) = "Malaysia" ->
         "Malaysian Customs Duties Order (PDK 2022/2024)."
    [] OTHER -> "WCO Harmonized System (2022 Edition)."

(* ------------------------------------------------------ the connectors *)

NoConn == [name |-> "none", at |-> "idle", value |-> EmptyString, err |-> ""]
ConnAt(name, at) == [name |-> name, at |-> at, value |-> EmptyString, err |-> ""]
ConnReturned(name, value) ==
  [name |-> name, at |-> "returned", value |-> value, err |-> ""]
ConnThrew(name, err) ==
  [name |-> name, at |-> "threw", value |-> EmptyString, err |-> err]

NoResponse == [ok |-> FALSE, status |-> 0, contentType |-> ""]
NoData == [shape |-> "none", n |-> 0]
NoBody == [st |-> "none", data |-> NoData]

\* The token a connector reads from process.env before its try block:
\* "ReferenceError" without a process object, else "absent" or "present".
\* fetchSingaporeData reads none.
TokenLookup(name) ==
  CASE name = "fetchSingaporeData" -> "present"
    [] ~env.process -> "ReferenceError"
    [] name = "fetchUAEData" ->
         IF env.UAE_API_TOKEN THEN "present" ELSE "absent"
    [] OTHER -> IF env.SAUDI_API_TOKEN THEN "present" ELSE "absent"

\* A RequestInit without the controller's signal.
FetchInitNoSignal == [signal |-> FALSE]

\* The RequestInit fetchWithTimeout hands to fetch: the caller's options
\* plus the controller's signal.
FetchInit == [signal |-> TRUE]

\* A connector that does not test its token before the request.
ConnectorStartUnchecked(name) ==
  IF TokenLookup(name) = "ReferenceError"
    THEN [name |-> name, at |-> "threw", value |-> EmptyString,
          err |-> "ReferenceError"]
    ELSE [name |-> name, at |-> "fetching", value |-> EmptyString, err |-> ""]

\* A connector from its first line to its first await (or its return).
\* It ends in "threw", "returned" or "fetching" (fetch issued, timer armed).
ConnectorStart(name) ==
  CASE TokenLookup(name) = "ReferenceError" ->
         ConnThrew(name, "ReferenceError")
    [] TokenLookup(name) = "absent" -> ConnReturned(name, EmptyString)
    [] OTHER -> ConnAt(name, "fetching")

\* The status codes and content types the remote endpoints answer with.
Statuses == {200, 401, 403, 429, 500, 503}
ContentTypes == {"application/json", "text/html"}

\* A test that takes every status from 200 up for a success.
OkFrom200(status) == status >= 200

\* response.ok
Ok(status) == status >= 200 /\ status <= 299

\* The bodies response.json() resolves to: null, an object with neither
\* result nor items, an array of n entries, an object with items, an object
\* whose result.records is an array of n records, is an array holding null,
\* or is a string.
BodyData ==
  {[shape |-> sh, n |-> 0] :
     sh \in {"null", "object", "items", "recordsNull", "recordsString"}}
  \cup {[shape |-> sh, n |-> n] : sh \in {"array", "records"}, n \in 0..MaxRecords}

\* JSON.stringify of a body or of the mapped records: one piece naming the
\* shape, then one piece per entry.
Stringify(data) == <<data.shape>> \o [i \in 1..data.n |-> "entry"]

\* The limit parameter of the query string of line 60, which asks the
\* endpoint for that many records at most.
QueryLimit == 3

\* Lines 72-80 of fetchSingaporeData; the records.map of a null entry
\* throws a TypeError, caught at line 81.
SingaporeResult(data) ==
  CASE data.shape = "records" /\ data.n > 0 ->
         <<"Match found in Singapore HSA Database: ">> \o Stringify(data)
    [] OTHER -> EmptyString

\* Line 121 of fetchUAEData.
UAEResult(data) ==
  <<"Match found in Dubai Customs Database: ">> \o Stringify(data)

\* Lines 165-168 of fetchSaudiData.
SaudiResult(data) ==
  IF data.shape # "null" /\ (data.shape = "array" \/ data.shape = "items")
    THEN <<"Match found in ZATCA Tariff Schedule: ">> \o Stringify(data)
    ELSE EmptyString

ConnectorResult(name, data) ==
  CASE name = "fetchSingaporeData" -> SingaporeResult(data)
    [] name = "fetchUAEData" -> UAEResult(data)
    [] OTHER -> SaudiResult(data)

\* Whether a connector reads the body of an ok response: fetchUAEData only
\* when the content type says JSON (lines 118-119).
ReadsBody(name, resp) ==
  name = "fetchUAEData" => resp.contentType = "application/json"

(* ------------------------------------------------ the model's responses *)

\* The confidenceScore and source values the model may state.
Scores ==
  {Undef, Num(-5), Num(80), Num(85), Num(86), Num(92), Num(150), Str("90")}
Sources == {Undef, Str("AI Model"), Str("Live API")}

\* The JSON text of a result object: a field that is undefined is left out.
Serialize(score, source) ==
  <<LB, Member("hsCode", Str("8471.30.20")), COMMA,
    Member("productName", Str("Laptops")), COMMA,
    Member("description", Str("Portable computers")), COMMA,
    Member("dutyRate", Str("Free")), COMMA,
    Member("taxRate", Str("9% GST")), COMMA,
    Member("restrictions", Lst("none")), COMMA,
    Member("reasoning", Str("Heading 8471")), COMMA,
    Member("requiredDocuments", Lst("two"))>>
  \o (IF score = Undef THEN <<>> ELSE <<COMMA, Member("confidenceScore", score)>>)
  \o (IF source = Undef THEN <<>> ELSE <<COMMA, Member("source", source)>>)
  \o <<COMMA, Member("similarItems", Lst("five")), RB>>

\* The texts the model may answer with: a result object bare, in a json
\* fence, or between words; and texts that are no result object.
ModelTexts ==
  {Serialize(sc, so) : sc \in Scores, so \in Sources}
  \cup {<<FENCE, JSONTAG, NL>> \o Serialize(Num(92), Str("AI Model"))
          \o <<NL, FENCE>>,
        <<WORD>> \o Serialize(Num(92), Str("AI Model")) \o <<WORD>>,
        <<WORD>>, <<LB, WORD, RB>>, <<Scalar(Null)>>, <<Scalar(Num(92))>>,
        <<NL>>}

\* response.text: undefined, or a string (which may be empty).
NoText == [defined |-> FALSE, str |-> EmptyString]
TextOf(str) == [defined |-> TRUE, str |-> str]
ModelAnswers == {NoText, TextOf(EmptyString)} \cup {TextOf(t) : t \in ModelTexts}

(* ------------------------------------------------- the post-processing *)

\* ToNumber of a string, for the strings that occur as scores.
IsNumeric(str) == str \in {"80", "90"}
StrToNumber(str) == IF str = "80" THEN 80 ELSE 90

\* v > n as JavaScript evaluates it: a numeric string is converted,
\* undefined is NaN and compares false.
GreaterThan(v, n) ==
  CASE v.k = "num" -> v.n > n
    [] v.k = "str" -> IsNumeric(v.s) /\ StrToNumber(v.s) > n
    [] OTHER -> FALSE

\* A threshold test that also takes a score of exactly 85.
HighConfidenceFrom85(v) == GreaterThan(v.f["confidenceScore"], 84)

\* result.confidenceScore > 85
HighConfidence(v) == GreaterThan(v.f["confidenceScore"], 85)

\* tools.length > 0
ToolSelected(ts) == Len(ts) > 0

\* A post-processing that also stamps the sourceReference.
PostProcessStampsReference(ts, v) ==
  IF ToolSelected(ts) /\ v.t = "prim" /\ v.p = Null THEN Thrown("TypeError")
  ELSE IF ToolSelected(ts) /\ HighConfidence(v)
    THEN Returned([v EXCEPT !.f["source"] = Str("Live API"),
                            !.f["sourceReference"] = Str("Google Search")])
  ELSE Returned(v)

\* Lines 371-375: with a tool selected the confidenceScore of the parsed
\* value is read (a TypeError when the value is null), and above 85 its
\* source is overwritten.
PostProcess(ts, v) ==
  IF ToolSelected(ts) /\ v.t = "prim" /\ v.p = Null THEN Thrown("TypeError")
  ELSE IF ToolSelected(ts) /\ HighConfidence(v)
    THEN Returned([v EXCEPT !.f["source"] = Str("Live API")])
  ELSE Returned(v)

(* --------------------------------------------------- prompt compilation *)

\* imageBase64.split(',')[1]: the piece between the first and the second
\* comma; undefined (here the empty string, falsy alike) without a comma.
SplitSecond(str) ==
  LET P == {i \in 1..Len(str) : str[i] = ","}
  IN IF P = {} THEN EmptyString
     ELSE LET first == Min(P)
              rest == {i \in P : i > first}
              stop == IF rest = {} THEN Len(str) + 1 ELSE Min(rest)
          IN SubSeq(str, first + 1, stop - 1)

\* imageBase64.split(',')[1] || imageBase64
CleanBase64(str) == IF Truthy(SplitSecond(str)) THEN SplitSecond(str) ELSE str

NoMatchNotice ==
  <<"No direct match in pre-fetched government databases. Rely on Google Search Tool.">>

\* The promptText of lines 287-344, by the values interpolated into it.
PromptText(r, image, ctx, instructions) ==
  [region |-> r,
   imageNote |-> Truthy(image),
   evidence |-> IF Truthy(ctx) THEN ctx ELSE NoMatchNotice,
   instructions |-> instructions]

NoPrompt ==
  [region |-> "", imageNote |-> FALSE, evidence |-> EmptyString,
   instructions |-> ""]

ImagePart(data) == [kind |-> "inlineData", data |-> data, prompt |-> NoPrompt]
TextPart(prompt) == [kind |-> "text", data |-> EmptyString, prompt |-> prompt]

\* parts after lines 271-346.
BuildPartsList(r, image, ctx, instructions) ==
  (IF Truthy(image) THEN <<ImagePart(CleanBase64(image))>> ELSE <<>>)
  \o <<TextPart(PromptText(r, image, ctx, instructions))>>

(* ------------------------------------------------------- identifyHSCode *)

inputVars == <<region, imageBase64, hasCallback, env>>
localVars ==
  <<liveDataContext, regionSpecificInstructions, tools, gatherCaught, parts>>
modelVars == <<modelCalls, modelRequest, textResponse>>
outVars == <<parserCalls, parsed, result, error, failedAt>>
fetchVars == <<fetchCalls, timer, aborted, fetchState, response, bodyState>>
pipeVars ==
  <<inputVars, pc, statusLog, localVars, modelVars, outVars, conn, fetchVars>>
parseVars == <<input, parseOut, ppc>>
appVars == <<app, searches, submitted>>
vars == <<parseVars, pipeVars, parked, appVars>>

NoValue == JPrim(Undef)
NoRequest == [parts |-> <<>>, tools |-> <<>>]

\* The arguments and locals of a call of identifyHSCode that has run no
\* line yet.
FreshFrame(r, image, cb) ==
  [region |-> r, imageBase64 |-> image, hasCallback |-> cb,
   pc |-> "start", statusLog |-> <<>>,
   liveDataContext |-> EmptyString, regionSpecificInstructions |-> "",
   tools |-> <<>>, gatherCaught |-> "", parts |-> <<>>,
   modelCalls |-> 0, modelRequest |-> NoRequest, textResponse |-> NoText,
   parserCalls |-> 0, parsed |-> NoValue, result |-> NoValue,
   error |-> "", failedAt |-> "",
   conn |-> NoConn, fetchCalls |-> 0, timer |-> "unset", aborted |-> FALSE,
   fetchState |-> "none", response |-> NoResponse, bodyState |-> NoBody]

\* No second call.
NoFrame == [FreshFrame("Singapore", EmptyString, FALSE) EXCEPT !.pc = "idle"]

\* Two calls are in flight.
Concurrent == parked.pc # "idle"

\* null, for a useState cell that holds a string or null.
Unset == "null"

\* null, for the result cell.
NoResult == [of |-> 0]

\* App as it mounts (lines 19-30 of App.tsx): the initial value of each
\* useState cell, no search started.
AppMounted ==
  /\ app = [input |-> "", region |-> "Singapore", loading |-> FALSE,
            loadingStatus |-> "Initializing...", result |-> NoResult,
            error |-> Unset, imagePreview |-> Unset]
  /\ searches = {}
  /\ submitted = 0

\* identifyHSCode not called.
PipeIdle ==
  /\ AppMounted
  /\ parked = NoFrame
  /\ region = "Singapore"
  /\ imageBase64 = EmptyString
  /\ hasCallback = FALSE
  /\ env = [process |-> FALSE, UAE_API_TOKEN |-> FALSE,
            SAUDI_API_TOKEN |-> FALSE]
  /\ pc = "idle"
  /\ statusLog = <<>>
  /\ liveDataContext = EmptyString
  /\ regionSpecificInstructions = ""
  /\ tools = <<>>
  /\ gatherCaught = ""
  /\ parts = <<>>
  /\ modelCalls = 0
  /\ modelRequest = NoRequest
  /\ textResponse = NoText
  /\ parserCalls = 0
  /\ parsed = NoValue
  /\ result = NoValue
  /\ error = ""
  /\ failedAt = ""
  /\ conn = NoConn
  /\ fetchCalls = 0
  /\ timer = "unset"
  /\ aborted = FALSE
  /\ fetchState = "none"
  /\ response = NoResponse
  /\ bodyState = NoBody

\* identifyHSCode throws e from position at.
Fail(e, at) ==
  /\ pc' = "failed"
  /\ error' = e
  /\ failedAt' = at

\* Lines 190-195: the first label, then the three locals.
Initialize ==
  /\ pc = "start"
  /\ statusLog' = Emit("Initializing classification engine...")
  /\ \E cb \in CallbackOutcomes :
       IF cb = "throws"
         THEN Fail("CallbackError", "initialize")
         ELSE pc' = "gather" /\ UNCHANGED <<error, failedAt>>
  /\ UNCHANGED <<inputVars, localVars, modelVars, parserCalls, parsed, result,
                 conn, fetchVars, parseVars, parked, appVars>>

\* A catch that rethrows.
GatherRethrow(e) ==
  /\ gatherCaught' = e
  /\ pc' = "failed"
  /\ error' = e
  /\ failedAt' = "gather"

\* The catch of lines 265-268: the exception is logged and dropped.
GatherCatch(e) ==
  /\ gatherCaught' = e
  /\ pc' = "parts"
  /\ UNCHANGED <<error, failedAt>>

\* fetchWithTimeout up to its await: the controller, the timer, the fetch.
FetchStart ==
  /\ timer' = "armed"
  /\ aborted' = FALSE
  /\ fetchState' = "pending"
  /\ fetchCalls' = fetchCalls + 1
  /\ UNCHANGED <<response, bodyState>>

\* Lines 198-264 up to the first await: the region's label, its tools, and
\* its connector run to its first await; India and Malaysia await nothing.
Gather ==
  /\ pc = "gather"
  /\ statusLog' = Emit(StatusLabel(region))
  /\ \E cb \in CallbackOutcomes :
       IF cb = "throws" THEN
         /\ GatherCatch("CallbackError")
         /\ UNCHANGED <<tools, regionSpecificInstructions, conn, fetchVars>>
       ELSE IF BranchConnector(region) = "none" THEN
         /\ tools' = BranchTools(region)
         /\ regionSpecificInstructions' = BranchInstructions(region)
         /\ pc' = "parts"
         /\ UNCHANGED <<gatherCaught, error, failedAt, conn, fetchVars>>
       ELSE
         /\ tools' = BranchTools(region)
         /\ conn' = ConnectorStart(BranchConnector(region))
         /\ IF conn'.at = "fetching" THEN FetchStart ELSE UNCHANGED fetchVars
         /\ pc' = "awaitConnector"
         /\ UNCHANGED <<gatherCaught, regionSpecificInstructions, error,
                        failedAt>>
  /\ UNCHANGED <<inputVars, liveDataContext, parts, modelVars, parserCalls,
                 parsed, result, parseVars, parked, appVars>>

\* The program has a continuation to run: the event loop runs it before it
\* takes the next timer or network event.
RunnableAt(p, c, fs, bs) ==
  \/ p \in {"start", "gather", "parts", "invoke", "respond"}
  \/ /\ p = "awaitConnector"
     /\ \/ c.at \in {"fetched", "returned", "threw"}
        \/ c.at = "fetching" /\ fs # "pending"
        \/ c.at = "body" /\ bs.st # "pending"

Runnable ==
  \/ RunnableAt(pc, conn, fetchState, bodyState)
  \/ RunnableAt(parked.pc, parked.conn, parked.fetchState, parked.bodyState)

\* What the endpoints and the model answer with.  With two calls in flight
\* they are drawn from a part of each set: a success and a failure status,
\* a body with one record and bodies with none, a result and a text that
\* is none.
StatusesHeard == IF Concurrent THEN {200, 503} ELSE Statuses
ContentTypesHeard == IF Concurrent THEN {"application/json"} ELSE ContentTypes
BodiesHeard ==
  IF Concurrent
    THEN {[shape |-> "records", n |-> 1], [shape |-> "records", n |-> 0],
          [shape |-> "array", n |-> 0]}
    ELSE BodyData
AnswersHeard ==
  IF Concurrent
    THEN {TextOf(Serialize(Num(92), Str("AI Model"))), TextOf(<<WORD>>)}
    ELSE ModelAnswers

\* The remote endpoint answers: fetch resolves with the response headers.
RemoteRespond ==
  /\ fetchState = "pending"
  /\ \E status \in StatusesHeard, ct \in ContentTypesHeard :
       response' = [ok |-> Ok(status), status |-> status, contentType |-> ct]
  /\ fetchState' = "resolved"
  /\ UNCHANGED <<inputVars, pc, statusLog, localVars, modelVars, outVars, conn,
                 fetchCalls, timer, aborted, bodyState, parseVars, parked, appVars>>

\* The network fails: fetch rejects with a TypeError.
RemoteFail ==
  /\ fetchState = "pending"
  /\ fetchState' = "TypeError"
  /\ UNCHANGED <<inputVars, pc, statusLog, localVars, modelVars, outVars, conn,
                 fetchCalls, timer, aborted, response, bodyState, parseVars, parked, appVars>>

\* The timer of line 41 fires: controller.abort().  A fetch that was given
\* the signal rejects with an AbortError if pending, and so does a pending
\* read of its body.
TimerFire ==
  /\ timer = "armed"
  /\ ~Runnable
  /\ timer' = "fired"
  /\ aborted' = TRUE
  /\ fetchState' =
       IF fetchState = "pending" /\ FetchInit.signal THEN "AbortError"
       ELSE fetchState
  /\ bodyState' =
       IF bodyState.st = "pending" /\ FetchInit.signal
         THEN [bodyState EXCEPT !.st = "AbortError"]
         ELSE bodyState
  /\ UNCHANGED <<inputVars, pc, statusLog, localVars, modelVars, outVars, conn,
                 fetchCalls, response, parseVars, parked, appVars>>

\* A timer that is never cleared.
KeepTimeout(t) == t

\* clearTimeout(id)
ClearTimeout(t) == IF t = "armed" THEN "cleared" ELSE t

\* Lines 47-52: fetch has settled; the timer is cleared and the response
\* returned or the error rethrown to the connector.
FetchSettled ==
  /\ pc = "awaitConnector"
  /\ conn.at = "fetching"
  /\ fetchState \notin {"none", "pending"}
  /\ timer' = ClearTimeout(timer)
  /\ conn' = [conn EXCEPT !.at = "fetched",
                          !.err = IF fetchState = "resolved" THEN ""
                                  ELSE fetchState]
  /\ UNCHANGED <<inputVars, pc, statusLog, localVars, modelVars, outVars,
                 fetchCalls, aborted, fetchState, response, bodyState,
                 parseVars, parked, appVars>>

\* The connector after fetchWithTimeout: its catch returns "" for an error;
\* a response that is not ok, or (UAE) not JSON by content type, returns "";
\* otherwise response.json() is awaited.
ConnectorAfterFetch ==
  /\ pc = "awaitConnector"
  /\ conn.at = "fetched"
  /\ IF conn.err # "" THEN
       /\ conn' = ConnReturned(conn.name, EmptyString)
       /\ UNCHANGED bodyState
     ELSE IF ~response.ok \/ ~ReadsBody(conn.name, response) THEN
       /\ conn' = ConnReturned(conn.name, EmptyString)
       /\ UNCHANGED bodyState
     ELSE
       /\ conn' = [conn EXCEPT !.at = "body"]
       /\ bodyState' = [st |-> "pending", data |-> NoData]
  /\ UNCHANGED <<inputVars, pc, statusLog, localVars, modelVars, outVars,
                 fetchCalls, timer, aborted, fetchState, response, parseVars, parked, appVars>>

\* The body arrives and is JSON.
RemoteBody ==
  /\ bodyState.st = "pending"
  /\ \E data \in BodiesHeard : bodyState' = [st |-> "resolved", data |-> data]
  /\ UNCHANGED <<inputVars, pc, statusLog, localVars, modelVars, outVars, conn,
                 fetchCalls, timer, aborted, fetchState, response, parseVars, parked, appVars>>

\* The body arrives and is not JSON: response.json() rejects.
RemoteBodyInvalid ==
  /\ bodyState.st = "pending"
  /\ bodyState' = [bodyState EXCEPT !.st = "SyntaxError"]
  /\ UNCHANGED <<inputVars, pc, statusLog, localVars, modelVars, outVars, conn,
                 fetchCalls, timer, aborted, fetchState, response, parseVars, parked, appVars>>

\* The connector after response.json(): the evidence string, or "" from the
\* catch.
ConnectorAfterBody ==
  /\ pc = "awaitConnector"
  /\ conn.at = "body"
  /\ bodyState.st \notin {"none", "pending"}
  /\ conn' = ConnReturned(conn.name,
               IF bodyState.st = "resolved"
                 THEN ConnectorResult(conn.name, bodyState.data)
                 ELSE EmptyString)
  /\ UNCHANGED <<inputVars, pc, statusLog, localVars, modelVars, outVars,
                 fetchVars, parseVars, parked, appVars>>

\* An append that does not test the connector's result.
MergedAlways(r, ctx, apiData) ==
  IF Branch(r) = "Singapore" THEN ctx \o apiData \o <<"\n">> ELSE apiData

\* An evidence context that is one variable of the module: the Singapore
\* result is appended to what the other call has gathered.
MergedOntoOther(r, ctx, apiData) ==
  IF Branch(r) = "Singapore"
    THEN IF Truthy(apiData)
           THEN parked.liveDataContext \o ctx \o apiData \o <<"\n">>
           ELSE ctx
    ELSE apiData

\* liveDataContext after the connector returned apiData: appended with a
\* newline when non-empty (Singapore), assigned (Saudi Arabia, UAE, else).
Merged(r, ctx, apiData) ==
  IF Branch(r) = "Singapore"
    THEN IF Truthy(apiData) THEN ctx \o apiData \o <<"\n">> ELSE ctx
    ELSE apiData

\* identifyHSCode resumes after its await of the connector: the evidence
\* and the instructions are set, or the rejection is caught at line 265.
GatherResume ==
  /\ pc = "awaitConnector"
  /\ conn.at \in {"returned", "threw"}
  /\ IF conn.at = "threw" THEN
       /\ GatherCatch(conn.err)
       /\ UNCHANGED <<liveDataContext, regionSpecificInstructions>>
     ELSE
       /\ liveDataContext' = Merged(region, liveDataContext, conn.value)
       /\ regionSpecificInstructions' = BranchInstructions(region)
       /\ pc' = "parts"
       /\ UNCHANGED <<gatherCaught, error, failedAt>>
  /\ UNCHANGED <<inputVars, statusLog, tools, parts, modelVars, parserCalls,
                 parsed, result, conn, fetchVars, parseVars, parked, appVars>>

\* Lines 270-346: the image part (after its label) and the text part.
BuildParts ==
  /\ pc = "parts"
  /\ statusLog' =
       IF Truthy(imageBase64) THEN Emit("Analyzing product image features...")
       ELSE statusLog
  /\ \E cb \in CallbackOutcomes :
       IF Truthy(imageBase64) /\ cb = "throws" THEN
         /\ Fail("CallbackError", "parts")
         /\ UNCHANGED parts
       ELSE
         /\ parts' = BuildPartsList(region, imageBase64, liveDataContext,
                                    regionSpecificInstructions)
         /\ pc' = "invoke"
         /\ UNCHANGED <<error, failedAt>>
  /\ UNCHANGED <<inputVars, liveDataContext, regionSpecificInstructions, tools,
                 gatherCaught, modelVars, parserCalls, parsed, result, conn,
                 fetchVars, parseVars, parked, appVars>>

\* Lines 348-360: the last label, then the call of the model; an exception
\* of the callback is caught at line 377 and rethrown.
Invoke ==
  /\ pc = "invoke"
  /\ statusLog' = Emit("Synthesizing final compliance report...")
  /\ \E cb \in CallbackOutcomes :
       IF cb = "throws" THEN
         /\ Fail("CallbackError", "invoke")
         /\ UNCHANGED <<modelCalls, modelRequest>>
       ELSE
         /\ modelCalls' = modelCalls + 1
         /\ modelRequest' = [parts |-> parts, tools |-> tools]
         /\ pc' = "awaitModel"
         /\ UNCHANGED <<error, failedAt>>
  /\ UNCHANGED <<inputVars, localVars, textResponse, parserCalls, parsed,
                 result, conn, fetchVars, parseVars, parked, appVars>>

\* generateContent resolves: response.text is undefined or a string.
ModelRespond ==
  /\ pc = "awaitModel"
  /\ textResponse' \in AnswersHeard
  /\ pc' = "respond"
  /\ UNCHANGED <<inputVars, statusLog, localVars, modelCalls, modelRequest,
                 outVars, conn, fetchVars, parseVars, parked, appVars>>

\* A pipeline that invokes the model again when generateContent rejects.
ModelRejectRetry ==
  /\ pc = "awaitModel"
  /\ pc' = "invoke"
  /\ UNCHANGED <<inputVars, statusLog, localVars, modelVars, outVars, conn,
                 fetchVars, parseVars, parked, appVars>>

\* generateContent rejects; the catch of line 377 rethrows.
ModelReject ==
  /\ pc = "awaitModel"
  /\ Fail("ApiError", "model")
  /\ UNCHANGED <<inputVars, statusLog, localVars, modelVars, parserCalls,
                 parsed, result, conn, fetchVars, parseVars, parked, appVars>>

\* cleanAndParseJSON(text) for each text the model answers with, worked out
\* once.
ParsedText ==
  [str \in ModelTexts \cup {EmptyString} |-> cleanAndParseJSON(str)]

\* The SyntaxError of JSON.parse that line 32 rethrows has the message the
\* engine gives it: V8 quotes the start of the text in it, other engines
\* name a position only.  The Error of line 29 has its fixed message.
SyntaxErrorQuoting == "SyntaxError quoting the start of the text"

ErrorMessages(err) ==
  IF err = "SyntaxError" THEN {"SyntaxError", SyntaxErrorQuoting} ELSE {err}

\* A text check that takes only undefined for missing.
FalsyUndefinedOnly(t) == ~t.defined

\* if (!textResponse): undefined and the empty string are both falsy.
Falsy(t) == ~t.defined \/ t.str = EmptyString

\* Lines 362-380: the text check, the parser, the post-processing, the
\* return; every throw goes through the catch of line 377, which rethrows.
Finish ==
  /\ pc = "respond"
  /\ IF Falsy(textResponse) THEN
       /\ Fail("No response from AI", "noResponse")
       /\ UNCHANGED <<parserCalls, parsed, result>>
     ELSE
       /\ parserCalls' = parserCalls + 1
       /\ LET r == ParsedText[textResponse.str]
              q == PostProcess(tools, r.v)
          IN IF ~r.ok THEN
               /\ \E e \in ErrorMessages(r.err) : Fail(e, "parse")
               /\ UNCHANGED <<parsed, result>>
             ELSE IF ~q.ok THEN
               /\ Fail(q.err, "postProcess")
               /\ parsed' = r.v
               /\ UNCHANGED result
             ELSE
               /\ parsed' = r.v
               /\ result' = q.v
               /\ pc' = "done"
               /\ UNCHANGED <<error, failedAt>>
  /\ UNCHANGED <<inputVars, statusLog, localVars, modelVars, conn, fetchVars,
                 parseVars, parked, appVars>>

ParseIdle ==
  /\ input = <<>>
  /\ parseOut = [ok |-> FALSE, v |-> JPrim(Undef), err |-> "not run"]
  /\ ppc = "idle"

\* identifyHSCode called with any region, image, callback and environment.
Init ==
  /\ ParseIdle
  /\ AppMounted
  /\ parked = NoFrame
  /\ region \in TargetRegion
  /\ imageBase64 \in Images
  /\ hasCallback \in BOOLEAN
  /\ env \in Envs
  /\ pc = "start"
  /\ statusLog = <<>>
  /\ liveDataContext = EmptyString
  /\ regionSpecificInstructions = ""
  /\ tools = <<>>
  /\ gatherCaught = ""
  /\ parts = <<>>
  /\ modelCalls = 0
  /\ modelRequest = NoRequest
  /\ textResponse = NoText
  /\ parserCalls = 0
  /\ parsed = NoValue
  /\ result = NoValue
  /\ error = ""
  /\ failedAt = ""
  /\ conn = NoConn
  /\ fetchCalls = 0
  /\ timer = "unset"
  /\ aborted = FALSE
  /\ fetchState = "none"
  /\ response = NoResponse
  /\ bodyState = NoBody

\* The steps of the program, which the event loop always gets to.
Program ==
  \/ Initialize
  \/ Gather
  \/ FetchSettled
  \/ ConnectorAfterFetch
  \/ ConnectorAfterBody
  \/ GatherResume
  \/ BuildParts
  \/ Invoke
  \/ Finish

\* The steps of the remote endpoints and of the model, which may never come.
Environment ==
  \/ RemoteRespond
  \/ RemoteFail
  \/ RemoteBody
  \/ RemoteBodyInvalid
  \/ ModelRespond
  \/ ModelReject

Next == Program \/ Environment \/ TimerFire

Spec == Init /\ [][Next]_vars

\* The event loop runs every continuation that is ready and fires every
\* timer that stays armed; nothing makes a remote endpoint answer.
LiveSpec == Spec /\ WF_vars(Program) /\ WF_vars(TimerFire)

(* ------------------------------------------------ two calls in flight *)

\* The arguments, locals and position of the call that is running.
CurrentFrame ==
  [region |-> region, imageBase64 |-> imageBase64, hasCallback |-> hasCallback,
   pc |-> pc, statusLog |-> statusLog,
   liveDataContext |-> liveDataContext,
   regionSpecificInstructions |-> regionSpecificInstructions,
   tools |-> tools, gatherCaught |-> gatherCaught, parts |-> parts,
   modelCalls |-> modelCalls, modelRequest |-> modelRequest,
   textResponse |-> textResponse,
   parserCalls |-> parserCalls, parsed |-> parsed, result |-> result,
   error |-> error, failedAt |-> failedAt,
   conn |-> conn, fetchCalls |-> fetchCalls, timer |-> timer,
   aborted |-> aborted, fetchState |-> fetchState, response |-> response,
   bodyState |-> bodyState]

\* The running call is at f.
Running(f) ==
  /\ region = f.region
  /\ imageBase64 = f.imageBase64
  /\ hasCallback = f.hasCallback
  /\ pc = f.pc
  /\ statusLog = f.statusLog
  /\ liveDataContext = f.liveDataContext
  /\ regionSpecificInstructions = f.regionSpecificInstructions
  /\ tools = f.tools
  /\ gatherCaught = f.gatherCaught
  /\ parts = f.parts
  /\ modelCalls = f.modelCalls
  /\ modelRequest = f.modelRequest
  /\ textResponse = f.textResponse
  /\ parserCalls = f.parserCalls
  /\ parsed = f.parsed
  /\ result = f.result
  /\ error = f.error
  /\ failedAt = f.failedAt
  /\ conn = f.conn
  /\ fetchCalls = f.fetchCalls
  /\ timer = f.timer
  /\ aborted = f.aborted
  /\ fetchState = f.fetchState
  /\ response = f.response
  /\ bodyState = f.bodyState

\* The call f becomes the running one, with its arguments and its locals
\* other than tools.
Resume(f) ==
  /\ region' = f.region
  /\ imageBase64' = f.imageBase64
  /\ hasCallback' = f.hasCallback
  /\ pc' = f.pc
  /\ statusLog' = f.statusLog
  /\ liveDataContext' = f.liveDataContext
  /\ regionSpecificInstructions' = f.regionSpecificInstructions
  /\ gatherCaught' = f.gatherCaught
  /\ parts' = f.parts
  /\ modelCalls' = f.modelCalls
  /\ modelRequest' = f.modelRequest
  /\ textResponse' = f.textResponse
  /\ parserCalls' = f.parserCalls
  /\ parsed' = f.parsed
  /\ result' = f.result
  /\ error' = f.error
  /\ failedAt' = f.failedAt
  /\ conn' = f.conn
  /\ fetchCalls' = f.fetchCalls
  /\ timer' = f.timer
  /\ aborted' = f.aborted
  /\ fetchState' = f.fetchState
  /\ response' = f.response
  /\ bodyState' = f.bodyState

\* A tools array that is one variable of the module, not a local of each
\* call.
SwitchSharingTools ==
  /\ Concurrent
  /\ parked' = [CurrentFrame EXCEPT !.tools = parked.tools]
  /\ Resume(parked)
  /\ tools' = tools
  /\ UNCHANGED <<env, parseVars, appVars>>

\* The running call is suspended at an await (or has ended) and the other
\* call runs.  Every argument and local of lines 181-375 belongs to its
\* call; the two calls share process.env and the constants of the module.
Switch ==
  /\ Concurrent
  /\ parked' = CurrentFrame
  /\ Resume(parked)
  /\ tools' = parked.tools
  /\ UNCHANGED <<env, parseVars, appVars>>

\* Two calls of identifyHSCode, each with any region, without image and
\* without status callback, under any environment.
PairInit ==
  /\ ParseIdle
  /\ AppMounted
  /\ env \in Envs
  /\ \E r \in TargetRegion : Running(FreshFrame(r, EmptyString, FALSE))
  /\ \E r \in TargetRegion : parked = FreshFrame(r, EmptyString, FALSE)

PairNext == Next \/ Switch

PairSpec == PairInit /\ [][PairNext]_vars

(* ------------------------------------------ cleanAndParseJSON on its own *)

NotRun == [ok |-> FALSE, v |-> JPrim(Undef), err |-> "not run"]

\* The tokens the texts of ParseSpec are made of.
Alphabet == {LB, RB, FENCE, JSONTAG, NL, WORD, Scalar(Num(1))}

Texts == UNION {[1..n -> Alphabet] : n \in 0..MaxLen}

ParseInit ==
  /\ PipeIdle
  /\ input \in Texts
  /\ parseOut = NotRun
  /\ ppc = "start"

ParseCall ==
  /\ ppc = "start"
  /\ parseOut' = cleanAndParseJSON(input)
  /\ ppc' = "done"
  /\ UNCHANGED <<input, pipeVars, parked, appVars>>

ParseNext == ParseCall

ParseSpec == ParseInit /\ [][ParseNext]_vars

(* ------------------------------------------------------ the App component *)

\* The descriptions typed: nothing, a blank, a word.
Descriptions == {"", " ", "laptop"}

\* A text of the suggestions bar of lines 275-279.
Example == "Solar Panels"

\* input.trim() of a description
TrimInput(text) == IF text = " " THEN "" ELSE text

\* The regions chosen in the selector: the initial one and one whose branch
\* awaits no connector.
AppRegions == {"Singapore", "India"}

\* The data URL FileReader hands to reader.onloadend.
PreviewUrl == "data:image/jpeg;base64,AAAA"

\* The one message of the catch of lines 61-62.
FailedToClassify ==
  "Failed to classify product. Please ensure the description or image is clear."

\* The labels identifyHSCode hands to the callback of lines 57-59, for the
\* arguments of a search.
AppStages(r, image) ==
  <<"Initializing classification engine...", StatusLabel(r)>>
  \o (IF image THEN <<"Analyzing product image features...">> ELSE <<>>)
  \o <<"Synthesizing final compliance report...">>

\* The labels identifyHSCode reports before its first await, while
\* handleSearch is still running: all of them when the region's branch
\* awaits no connector, the first two otherwise.
HeardAtCall(r, image) ==
  IF BranchConnector(r) = "none" THEN Len(AppStages(r, image)) ELSE 2

\* Lines 47-66 up to the await: the early return, or the four setters and
\* the call of identifyHSCode, whose labels up to its first await overwrite
\* "Preparing analysis..." before the component renders again.
handleSearch ==
  IF TrimInput(app.input) = "" /\ app.imagePreview = Unset
    THEN UNCHANGED appVars
    ELSE LET image == app.imagePreview # Unset
             n == HeardAtCall(app.region, image)
         IN /\ submitted < MaxSearches
            /\ submitted' = submitted + 1
            /\ searches' = searches \cup
                 {[seq |-> submitted + 1, region |-> app.region,
                   image |-> image, heard |-> n]}
            /\ app' = [app EXCEPT !.loading = TRUE,
                                  !.loadingStatus = AppStages(app.region, image)[n],
                                  !.error = Unset,
                                  !.result = NoResult]

\* The Classify button of lines 253-256, which is disabled while loading
\* and while there is neither text nor image.
ClickClassify ==
  /\ ~(app.loading \/ (app.input = "" /\ app.imagePreview = Unset))
  /\ handleSearch
  /\ UNCHANGED <<parseVars, pipeVars, parked>>

\* The onKeyDown of lines 216-221: Enter without Shift in the description
\* field calls handleSearch.
PressEnter ==
  /\ handleSearch
  /\ UNCHANGED <<parseVars, pipeVars, parked>>

\* identifyHSCode reports its next label: setLoadingStatus (line 58).
SearchStatus ==
  /\ \E s \in searches :
       /\ s.heard < Len(AppStages(s.region, s.image))
       /\ searches' = (searches \ {s}) \cup {[s EXCEPT !.heard = s.heard + 1]}
       /\ app' = [app EXCEPT
                    !.loadingStatus = AppStages(s.region, s.image)[s.heard + 1]]
  /\ UNCHANGED <<submitted, parseVars, pipeVars, parked>>

\* identifyHSCode resolves (after its last label): lines 60 and 64.
SearchResolve ==
  /\ \E s \in searches :
       /\ s.heard = Len(AppStages(s.region, s.image))
       /\ searches' = searches \ {s}
       /\ app' = [app EXCEPT !.result = [of |-> s.seq], !.loading = FALSE]
  /\ UNCHANGED <<submitted, parseVars, pipeVars, parked>>

\* identifyHSCode rejects (the model or the parsing failed): lines 61-64.
SearchReject ==
  /\ \E s \in searches :
       /\ s.heard = Len(AppStages(s.region, s.image))
       /\ searches' = searches \ {s}
       /\ app' = [app EXCEPT !.error = FailedToClassify, !.loading = FALSE]
  /\ UNCHANGED <<submitted, parseVars, pipeVars, parked>>

\* The onChange of line 213.
TypeInput ==
  /\ \E text \in Descriptions \ {app.input} :
       app' = [app EXCEPT !.input = text]
  /\ UNCHANGED <<searches, submitted, parseVars, pipeVars, parked>>

\* The RegionSelector of line 178.
SelectRegion ==
  /\ \E r \in AppRegions \ {app.region} : app' = [app EXCEPT !.region = r]
  /\ UNCHANGED <<searches, submitted, parseVars, pipeVars, parked>>

\* handleFileSelect, lines 73-82: the reader has read the file.
ImageLoaded ==
  /\ app.imagePreview = Unset
  /\ app' = [app EXCEPT !.imagePreview = PreviewUrl]
  /\ UNCHANGED <<searches, submitted, parseVars, pipeVars, parked>>

\* removeImage, lines 88-91; its button is rendered with the preview.
removeImage ==
  /\ app.imagePreview # Unset
  /\ app' = [app EXCEPT !.imagePreview = Unset]
  /\ UNCHANGED <<searches, submitted, parseVars, pipeVars, parked>>

\* loadExample, lines 68-71; the examples are rendered without result and
\* without preview (line 272).
loadExample ==
  /\ app.result = NoResult
  /\ app.imagePreview = Unset
  /\ app' = [app EXCEPT !.input = Example, !.imagePreview = Unset]
  /\ UNCHANGED <<searches, submitted, parseVars, pipeVars, parked>>

\* The button of line 325, rendered with the result.
ClearResult ==
  /\ app.result # NoResult
  /\ app' = [app EXCEPT !.result = NoResult, !.input = "",
                        !.imagePreview = Unset]
  /\ UNCHANGED <<searches, submitted, parseVars, pipeVars, parked>>

AppInit == ParseIdle /\ PipeIdle

AppNext ==
  \/ ClickClassify
  \/ PressEnter
  \/ SearchStatus
  \/ SearchResolve
  \/ SearchReject
  \/ TypeInput
  \/ SelectRegion
  \/ ImageLoaded
  \/ removeImage
  \/ loadExample
  \/ ClearResult

AppSpec == AppInit /\ [][AppNext]_vars

(* ================================================================ claims *)

\* The model has answered and identifyHSCode has gone through lines 362-380.
Answered ==
  /\ pc \in {"done", "failed"}
  /\ failedAt \in {"", "noResponse", "parse", "postProcess"}

\* A stated score above 85: a number above 85, or the numeric string "90".
Above85(score) == (score.k = "num" /\ score.n > 85) \/ score = Str("90")

\* C1: in every returned result the source is 'Live API' when the search
\* tool was passed to the model and the parsed confidenceScore is above 85,
\* and is the model-stated source otherwise (score of 85 or less, or no tool).
C1_SourceOverride ==
  pc = "done" =>
    result.f["source"] =
      IF modelRequest.tools # <<>> /\ Above85(parsed.f["confidenceScore"])
        THEN Str("Live API")
        ELSE parsed.f["source"]

C1_Witness ==
  /\ pc = "done"
  /\ modelRequest.tools = <<"googleSearch">>
  /\ parsed.f["confidenceScore"] = Num(92)
  /\ parsed.f["source"] = Str("AI Model")
  /\ result.f["source"] = Str("Live API")

\* C2: every field of the returned result other than source equals the
\* value parsed from the model text, for every region and score.
C2_OnlySourceAltered ==
  pc = "done" =>
    /\ result.t = parsed.t
    /\ result.p = parsed.p
    /\ \A key \in Keys \ {"source"} : result.f[key] = parsed.f[key]

C2_Witness ==
  /\ pc = "done"
  /\ result.f["source"] # parsed.f["source"]
  /\ result.f["sourceReference"] = Undef
  /\ result.f["hsCode"] = Str("8471.30.20")

\* The three tiers as the claim states them.
Tier1(t) == JSONparse(t)
Tier2(t) ==
  IF FenceMatch(t).found THEN JSONparse(FenceMatch(t).group) ELSE ParseFail
Tier3(t) ==
  LET opens == {i \in 1..Len(t) : t[i].c = "{"}
      closes == {i \in 1..Len(t) : t[i].c = "}"}
  IN IF opens = {} \/ closes = {} THEN ParseFail
     ELSE JSONparse(SubSeq(t, Min(opens), Max(closes)))
FirstTier(t) ==
  IF Tier1(t).ok THEN Tier1(t) ELSE IF Tier2(t).ok THEN Tier2(t) ELSE Tier3(t)

\* C3: the result of cleanAndParseJSON is the result of the first of the
\* three tiers (whole text, fenced block, first opening brace to last
\* closing brace) that parses, and it throws exactly when all three fail.
C3_FirstTierWins ==
  ppc = "done" =>
    /\ parseOut.ok = FirstTier(input).ok
    /\ (parseOut.ok => parseOut.v = FirstTier(input).v)
    /\ (~parseOut.ok => parseOut.err # "")

\* The interior of the first fenced block of a text, without its language
\* tag (a word right after the opening fence).
HasBlock(t) == Cardinality({i \in 1..Len(t) : t[i].c = "fence"}) >= 2
BlockInterior(t) ==
  LET F == {i \in 1..Len(t) : t[i].c = "fence"}
      open == Min(F)
      close == Min(F \ {open})
      inner == SubSeq(t, open + 1, close - 1)
  IN IF inner # <<>> /\ inner[1].c \in {"json", "word"} THEN Tail(inner)
     ELSE inner

\* C4: for a text that is not a JSON document and holds a fenced block
\* whose interior (after any language tag) is a JSON document,
\* cleanAndParseJSON returns the parse of that interior.
C4_FencedBlockParsed ==
  (ppc = "done" /\ ~JSONparse(input).ok /\ HasBlock(input)
     /\ JSONparse(BlockInterior(input)).ok)
  => parseOut = Returned(JSONparse(BlockInterior(input)).v)

\* C5 as stated: NoResponse, without a call of the parser, exactly when the
\* response has no text; a text that is present goes to the parser.
C5_NoResponseIffNoText ==
  Answered =>
    /\ (error = "No response from AI") = (~textResponse.defined)
    /\ (textResponse.defined => parserCalls = 1)
    /\ (~textResponse.defined => parserCalls = 0)

\* C5 amended: NoResponse, without a call of the parser, exactly when the
\* response text is absent or the empty string; every non-empty text goes
\* to the parser, and a malformed one fails there.
C5_NoResponseIffNoOrEmptyText ==
  Answered =>
    LET none == ~textResponse.defined \/ Len(textResponse.str) = 0
    IN /\ (error = "No response from AI") = none
       /\ (none => parserCalls = 0 /\ pc = "failed")
       /\ (~none => parserCalls = 1)
       /\ (~none /\ ~JSONparse(textResponse.str).ok /\ pc = "failed"
             => failedAt = "parse")

C5_Witness ==
  /\ pc = "failed"
  /\ error = "No response from AI"
  /\ textResponse.defined
  /\ parserCalls = 0

\* An exception was raised during evidence gathering.
RaisedInGather == gatherCaught # "" \/ conn.at = "threw"

LaterStages == {"parts", "invoke", "model", "noResponse", "parse", "postProcess"}

\* C6: an exception raised during evidence gathering (callback, credential
\* lookup, connector) never makes identifyHSCode throw: the call goes on
\* with an empty evidence context to prompt compilation and calls the
\* model, unless a later stage of its own throws first.
C6_GatherNeverAborts ==
  /\ [](RaisedInGather =>
          /\ (pc = "failed" => failedAt \in LaterStages)
          /\ liveDataContext = EmptyString
          /\ (modelCalls = 1 =>
                modelRequest.parts[Len(modelRequest.parts)].prompt.evidence
                  = NoMatchNotice))
  /\ (RaisedInGather ~>
        (modelCalls = 1 \/ (pc = "failed" /\ failedAt \in {"parts", "invoke"})))

C6_Witness ==
  /\ gatherCaught = "ReferenceError"
  /\ conn.at = "threw"
  /\ modelCalls = 1
  /\ pc = "done"

\* C7: a connector never raises; it resolves to a string, the empty string
\* unless the response matched structurally.
C7_ConnectorsNeverRaise ==
  /\ conn.at # "threw"
  /\ ((conn.at = "returned" /\ conn.value # EmptyString)
        => fetchState = "resolved")

\* The token of a connector is not set in process.env.
TokenAbsent(name) ==
  /\ env.process
  /\ (name = "fetchUAEData" => ~env.UAE_API_TOKEN)
  /\ (name = "fetchSaudiData" => ~env.SAUDI_API_TOKEN)
  /\ name \in {"fetchUAEData", "fetchSaudiData"}

C9_TimeoutAborts ==
  /\ [](timer = "fired" =>
          /\ aborted
          /\ fetchState = "AbortError"
          /\ conn.at \in {"fetching", "fetched", "returned"}
          /\ (conn.at = "fetched" => conn.err = "AbortError")
          /\ (conn.at = "returned" => conn.value = EmptyString))
  /\ (timer = "fired" ~> (conn.at = "returned" /\ conn.value = EmptyString))

C9_Witness ==
  /\ timer = "fired"
  /\ aborted
  /\ fetchState = "AbortError"
  /\ conn = ConnReturned("fetchSingaporeData", EmptyString)

\* C10: every connector call that was started returns in the end, whatever
\* the remote endpoint does.
C10_ConnectorBounded ==
  (pc = "awaitConnector") ~> (pc # "awaitConnector")

\* The text part of the request the model was called with.
SentPrompt == modelRequest.parts[Len(modelRequest.parts)].prompt

\* C11: for each of the 10 regions the instruction block placed in the
\* prompt is the region's block and is not empty.
C11_EveryRegionInstructed ==
  modelCalls = 1 =>
    /\ SentPrompt.instructions = BranchInstructions(region)
    /\ SentPrompt.instructions # ""

\* No connector credential is configured.
NoCredentials == ~env.UAE_API_TOKEN /\ ~env.SAUDI_API_TOKEN

\* C12: a Singapore request without image and without credentials (no
\* status callback, or one that returns), answered with a result object
\* whose confidenceScore is above 85, returns source 'Live API', whatever
\* source the model stated and whatever fetchSingaporeData returned.
C12_SingaporeEndToEnd ==
  (/\ pc = "done"
   /\ region = "Singapore"
   /\ imageBase64 = EmptyString
   /\ NoCredentials
   /\ gatherCaught = ""
   /\ parsed.t = "obj"
   /\ Above85(parsed.f["confidenceScore"]))
  => result.f["source"] = Str("Live API")

C12_Witness ==
  /\ pc = "done"
  /\ region = "Singapore"
  /\ imageBase64 = EmptyString
  /\ NoCredentials
  /\ ~hasCallback
  /\ conn.value # EmptyString
  /\ parsed.f["confidenceScore"] = Num(92)
  /\ parsed.f["source"] = Undef
  /\ result.f["source"] = Str("Live API")

\* C13: the confidenceScore of every returned result is a number from 0 to
\* 100.
C13_ScoreInRange ==
  pc = "done" =>
    /\ result.f["confidenceScore"].k = "num"
    /\ result.f["confidenceScore"].n >= 0
    /\ result.f["confidenceScore"].n <= 100

\* The fields HSCodeResult requires (source and sourceReference are
\* optional).
RequiredKeys == Keys \ {"source", "sourceReference"}

\* A value of the HSCodeResult shape.
WellShaped(v) ==
  /\ v.t = "obj"
  /\ \A key \in RequiredKeys : v.f[key] # Undef
  /\ v.f["confidenceScore"].k = "num"
  /\ v.f["source"] \in {Undef, Str("Live API"), Str("AI Model")}

\* C14: every value identifyHSCode returns has the HSCodeResult shape.
C14_OnlyValidatedResults == pc = "done" => WellShaped(result)

\* C15: when cleanAndParseJSON fails, the error identifyHSCode throws
\* carries the model text (or a part of it), with and without braces in
\* the text.
C15_ParseErrorCarriesText ==
  (pc = "failed" /\ failedAt = "parse") => error = SyntaxErrorQuoting

\* A call has returned or thrown.
Ended(f) == f.pc \in {"done", "failed"}

\* Two calls were given the same region, image and callback (they have the
\* same description and, sharing process.env, the same credentials).
SameRequest(f, g) ==
  /\ f.region = g.region
  /\ f.imageBase64 = g.imageBase64
  /\ f.hasCallback = g.hasCallback

\* Two calls heard the same from their connector's endpoint (answer,
\* network error or timeout; headers; body) and from the model (text, or
\* rejection).
SameResponses(f, g) ==
  /\ f.fetchState = g.fetchState
  /\ f.timer = g.timer
  /\ f.response = g.response
  /\ f.bodyState = g.bodyState
  /\ f.textResponse = g.textResponse
  /\ (f.failedAt = "model") = (g.failedAt = "model")

\* C16: two calls with the same request, under the same credentials, that
\* heard the same responses from the connector's endpoint and from the
\* model, sent the same parts and tools to the model and ended alike:
\* both returned the same result, or both threw at the same place.
C16_Deterministic ==
  (/\ Ended(CurrentFrame)
   /\ Ended(parked)
   /\ SameRequest(CurrentFrame, parked)
   /\ SameResponses(CurrentFrame, parked))
  => /\ modelCalls = parked.modelCalls
     /\ modelRequest = parked.modelRequest
     /\ pc = parked.pc
     /\ failedAt = parked.failedAt
     /\ result = parked.result

C16_Witness ==
  /\ pc = "done"
  /\ parked.pc = "done"
  /\ SameRequest(CurrentFrame, parked)
  /\ SameResponses(CurrentFrame, parked)
  /\ region = "Singapore"
  /\ bodyState.data = [shape |-> "records", n |-> 1]
  /\ SentPrompt.evidence # NoMatchNotice
  /\ result.f["source"] = Str("Live API")
  /\ result = parked.result

\* What a call holds and sends, worked out from its own arguments and from
\* the responses it heard itself.
GatherEnded(f) ==
  /\ f.pc \notin {"idle", "start", "gather", "awaitConnector"}
  /\ f.failedAt # "initialize"

ExpectedTools(f) ==
  IF f.pc \in {"idle", "start", "gather"} \/ f.failedAt = "initialize"
       \/ f.gatherCaught = "CallbackError"
    THEN <<>>
    ELSE BranchTools(f.region)

ExpectedEvidence(f) ==
  IF GatherEnded(f) /\ f.conn.at = "returned"
    THEN Merged(f.region, EmptyString,
                IF f.bodyState.st = "resolved"
                  THEN ConnectorResult(f.conn.name, f.bodyState.data)
                  ELSE EmptyString)
    ELSE EmptyString

ExpectedInstructions(f) ==
  IF GatherEnded(f) /\ f.gatherCaught = "" THEN BranchInstructions(f.region)
  ELSE ""

ExpectedRequest(f) ==
  [parts |-> BuildPartsList(f.region, f.imageBase64, ExpectedEvidence(f),
                            ExpectedInstructions(f)),
   tools |-> ExpectedTools(f)]

OwnOutputs(f) ==
  /\ f.tools = ExpectedTools(f)
  /\ f.liveDataContext = ExpectedEvidence(f)
  /\ f.regionSpecificInstructions = ExpectedInstructions(f)
  /\ (f.modelCalls = 1 => f.modelRequest = ExpectedRequest(f))
  /\ (f.pc = "done" =>
        f.result = PostProcess(ExpectedTools(f),
                               ParsedText[f.textResponse.str].v).v)

\* C17: with two calls interleaved at their awaits, the evidence context,
\* the tools, the prompt and the result of each call are those given by
\* its own arguments and its own responses, and no step of either call
\* writes what the two share (process.env).
C17_Isolated ==
  /\ [](OwnOutputs(CurrentFrame) /\ OwnOutputs(parked))
  /\ [][env' = env]_vars

C17_Witness ==
  /\ pc = "done"
  /\ region = "Singapore"
  /\ tools = <<"googleSearch">>
  /\ liveDataContext # EmptyString
  /\ parked.region = "UAE"
  /\ parked.pc = "awaitConnector"
  /\ parked.conn.at = "body"
  /\ parked.tools = <<>>

\* The remote endpoint answered the connector with a non-success status.
NonSuccess ==
  response.status # 0 /\ (response.status < 200 \/ response.status > 299)

\* C18: after a non-success status (401, 403, 429, 500, 503) the connector
\* returns the empty string without reading the body, identifyHSCode does
\* not throw because of it, and the model is called (unless a status
\* callback of a later stage throws first).
C18_NonSuccessIsEmpty ==
  /\ [](NonSuccess =>
          /\ bodyState = NoBody
          /\ conn.at \in {"fetching", "fetched", "returned"}
          /\ (conn.at = "returned" => conn.value = EmptyString)
          /\ liveDataContext = EmptyString
          /\ (pc = "failed" => failedAt \in LaterStages))
  /\ (NonSuccess ~>
        (modelCalls = 1 \/ (pc = "failed" /\ failedAt \in {"parts", "invoke"})))

C18_Witness ==
  /\ response.status = 503
  /\ conn = ConnReturned("fetchSaudiData", EmptyString)
  /\ bodyState = NoBody
  /\ modelCalls = 1
  /\ pc = "done"

\* fetchWithTimeout has returned or thrown.
FetchWithTimeoutSettled == fetchCalls = 1 /\ conn.at \in {"fetched", "body", "returned"}

\* C19: once fetchWithTimeout has returned or thrown, its timer is not
\* pending (it was cleared, or had fired), and from then on the timer does
\* not change and the signal is not aborted.
C19_TimerAlwaysCleared ==
  /\ [](FetchWithTimeoutSettled => timer \in {"cleared", "fired"})
  /\ [][FetchWithTimeoutSettled => (timer' = timer /\ aborted' = aborted)]_vars

C19_Witness ==
  /\ FetchWithTimeoutSettled
  /\ conn.at = "fetched"
  /\ conn.err = "TypeError"
  /\ timer = "cleared"
  /\ ~aborted

\* C20: the search tool is passed to the model exactly for Singapore, India
\* and Malaysia, no tool is passed for any other region, and the
\* post-processing tests the tools that were passed.
C20_ToolsExactlyForSearchRegions ==
  modelCalls = 1 =>
    /\ (modelRequest.tools # <<>>) = (region \in {"Singapore", "India", "Malaysia"})
    /\ (region \notin {"Singapore", "India", "Malaysia"} => modelRequest.tools = <<>>)
    /\ tools = modelRequest.tools

\* The connector of a region's own jurisdiction, "none" for a region
\* without one.
OwnConnector(r) ==
  CASE r = "Singapore" -> "fetchSingaporeData"
    [] r = "Saudi Arabia" -> "fetchSaudiData"
    [] r = "UAE" -> "fetchUAEData"
    [] OTHER -> "none"

\* C21: the only connector a call invokes is the one of its region's own
\* jurisdiction; for a region without one no connector is invoked and the
\* prompt's evidence is the no-match notice.
C21_ConnectorOnlyForOwnRegion ==
  /\ conn.name \in {"none", OwnConnector(region)}
  /\ ((modelCalls = 1 /\ OwnConnector(region) = "none")
        => SentPrompt.evidence = NoMatchNotice)

\* C22: the evidence block of the prompt is the evidence context when that
\* is non-empty and the no-match notice when it is empty; the context holds
\* the connector's result (followed by a newline for Singapore) when the
\* result is non-empty, and nothing otherwise.
C22_EvidenceBlock ==
  /\ (modelCalls = 1 =>
        SentPrompt.evidence =
          IF liveDataContext # EmptyString THEN liveDataContext
          ELSE NoMatchNotice)
  /\ (pc \in {"parts", "invoke", "awaitModel", "respond", "done"} =>
        liveDataContext =
          IF conn.at = "returned" /\ conn.value # EmptyString
            THEN IF region = "Singapore" THEN conn.value \o <<"\n">>
                 ELSE conn.value
            ELSE EmptyString)

C22_Witness ==
  /\ modelCalls = 1
  /\ conn = ConnReturned("fetchSingaporeData", EmptyString)
  /\ bodyState.st = "resolved"
  /\ liveDataContext = EmptyString
  /\ SentPrompt.evidence = NoMatchNotice

\* The connector of a call failed (network error, timeout, non-success
\* status, unreadable body, exception) or was skipped (no token): it read
\* no body.
FailedOrSkipped(f) ==
  f.conn.at \in {"returned", "threw"} /\ f.bodyState.st # "resolved"

\* The connector of a call got a success response with zero records.
SucceededEmpty(f) ==
  /\ f.conn.at = "returned"
  /\ f.response.ok
  /\ f.bodyState.st = "resolved"
  /\ f.bodyState.data.shape \in {"records", "array"}
  /\ f.bodyState.data.n = 0

\* C23: of two calls with the same request, one whose connector failed or
\* was skipped and one whose connector succeeded with zero records do not
\* have both the same evidence context and the same request to the model.
C23_EmptyDistinguishable ==
  (/\ SameRequest(CurrentFrame, parked)
   /\ modelCalls = 1
   /\ parked.modelCalls = 1
   /\ FailedOrSkipped(CurrentFrame)
   /\ SucceededEmpty(parked))
  => ~(/\ liveDataContext = parked.liveDataContext
       /\ modelRequest = parked.modelRequest)

\* An image string without its data-URI prefix: what follows the first
\* comma, or the whole string when it has no comma.
AfterFirstComma(str) ==
  LET commas == {i \in 1..Len(str) : str[i] = ","}
  IN IF commas = {} THEN str
     ELSE SubSeq(str, (CHOOSE i \in commas : \A j \in commas : i <= j) + 1,
                 Len(str))

\* C24: the request sent to the model holds exactly the image part followed
\* by the text part when an image was given and exactly the text part
\* otherwise, and the image part carries the image string without its
\* data-URI prefix.
C24_OrderedParts ==
  modelCalls = 1 =>
    LET sent == modelRequest.parts
    IN IF imageBase64 # EmptyString
         THEN /\ Len(sent) = 2
              /\ sent[1].kind = "inlineData"
              /\ sent[1].data = AfterFirstComma(imageBase64)
              /\ sent[2].kind = "text"
         ELSE /\ Len(sent) = 1
              /\ sent[1].kind = "text"

\* C25: one call of identifyHSCode invokes at most one connector, issues at
\* most one network request and invokes the model at most once; a connector
\* that has returned or thrown is not started again, and a call that has
\* ended, by a result or by a failure, makes no further request.
C25_NoRetries ==
  /\ [](fetchCalls <= 1 /\ modelCalls <= 1)
  /\ [][/\ (conn.name # "none" => conn'.name = conn.name)
        /\ (conn.at \in {"returned", "threw"} => conn' = conn)
        /\ (pc \in {"done", "failed"} =>
              /\ pc' = pc
              /\ modelCalls' = modelCalls
              /\ fetchCalls' = fetchCalls)]_vars

\* The one request of the connector failed and the one invocation of the
\* model failed, and the call has ended.
C25_Witness ==
  /\ pc = "failed"
  /\ failedAt = "model"
  /\ modelCalls = 1
  /\ fetchCalls = 1
  /\ fetchState = "TypeError"
  /\ conn.at = "returned"

\* The number of records a stringified list embeds.
Embedded(str) == Cardinality({i \in 1..Len(str) : str[i] = "entry"})

\* C26: the fragment the Singapore connector returns, and the evidence
\* context made of it, embed at most QueryLimit records.
C26_SingaporeCapped ==
  (conn.name = "fetchSingaporeData" /\ conn.at = "returned") =>
    /\ Embedded(conn.value) <= QueryLimit
    /\ Embedded(liveDataContext) <= QueryLimit

\* The labels a call that reaches the model reports, in order.
StagesInOrder ==
  <<"Initializing classification engine...", StatusLabel(region)>>
  \o (IF imageBase64 # EmptyString
        THEN <<"Analyzing product image features...">> ELSE <<>>)
  \o <<"Synthesizing final compliance report...">>

\* C27: the labels reported so far are the first labels of the stage order
\* (the first label, one region label, the image label only with an image,
\* the last label); the region label is reported before a connector is
\* started; the last label is reported only after evidence gathering has
\* ended, and is reported when the model is invoked.
C27_LabelsInStageOrder ==
  IF hasCallback
    THEN /\ Len(statusLog) <= Len(StagesInOrder)
         /\ statusLog = SubSeq(StagesInOrder, 1, Len(statusLog))
         /\ (conn.name # "none" => Len(statusLog) >= 2)
         /\ (Len(statusLog) = Len(StagesInOrder) =>
               pc \notin {"start", "gather", "awaitConnector", "parts"})
         /\ (modelCalls = 1 => statusLog = StagesInOrder)
    ELSE statusLog = <<>>

\* A call with an image and a callback whose connector returned and whose
\* model was invoked: four labels were reported.
C27_Witness ==
  /\ hasCallback
  /\ imageBase64 # EmptyString
  /\ conn.at = "returned"
  /\ modelCalls = 1
  /\ Len(statusLog) = 4
  /\ statusLog = StagesInOrder

\* C28: the tools passed to the model and the instruction block of the
\* prompt are those of the region's branch in every call that reaches the
\* model, whether its connector returned a match, returned the empty string
\* or an exception was swallowed during evidence gathering.
C28_PolicyByRegionAlone ==
  modelCalls = 1 =>
    /\ modelRequest.tools = BranchTools(region)
    /\ SentPrompt.instructions = BranchInstructions(region)
    /\ (gatherCaught # "" =>
          /\ tools = BranchTools(region)
          /\ regionSpecificInstructions = BranchInstructions(region))

\* C29: at most one call of handleSearch waits at its await, loading is
\* true exactly while one does, and a shown result is the result of the
\* last search submitted.
C29_OneInFlight ==
  /\ Cardinality(searches) <= 1
  /\ app.loading = (searches # {})
  /\ (app.result # NoResult => app.result.of = submitted)

\* C30: result and error are never both set; the step that settles the
\* last pending search leaves loading false and exactly one of result and
\* error set; a set error is the one fixed message.
C30_ResultXorError ==
  /\ [](~(app.result # NoResult /\ app.error # Unset))
  /\ [](app.error \in {Unset, FailedToClassify})
  /\ [][(searches # {} /\ searches' = {}) =>
          /\ ~app'.loading
          /\ (app'.result # NoResult) # (app'.error # Unset)]_vars

====
